---------------------------- MODULE Spec2Model ----------------------------
(***************************************************************************)
(* Model of the waitlist widget of apps/web/app/(waitlist)/_components/    *)
(* waitlist.tsx: the count query (queryFn with its localStorage cache),    *)
(* the join mutation with its onSuccess / onError callbacks, and the       *)
(* effect of WaitlistForm that persists and restores the success flag.     *)
(*                                                                         *)
(* JavaScript values are encoded as follows.  An optional value (null or   *)
(* undefined against a present value) is a sequence of length 0 or 1:      *)
(* None is <<>> and Some(x) is <<x>>.  A string held under the key         *)
(* "waitlist_count" is a record whose kind tells what JSON.parse does with *)
(* it: "absent" (getItem returns null), "empty" (the empty string),        *)
(* "garbage" (JSON.parse throws), "jsonnull" (parses to null) and "object" *)
(* (parses to an object whose count and timestamp properties are each a    *)
(* number or missing).                                                     *)
(*                                                                         *)
(* A callback of the component reads query.data of the latest render; a    *)
(* state update followed by the effect it schedules is one step.           *)
(***************************************************************************)
EXTENDS Integers, Sequences, FiniteSets, TLC

\* ------------------------------------------------------------- bounds
MaxTicks == 3        \* clock advances per behaviour
MaxCount == 1        \* the server answers a count in 0..MaxCount
MaxFetches == 2      \* GET /api/waitlist/count requests per behaviour
MaxSubmits == 2      \* POST /api/waitlist/join requests per behaviour

\* ---------------------------------------------------------- constants
CACHE_DURATION == 2 * 60 * 60 * 1000

GenericJoinError == "Failed to join waitlist"
FallbackToastError == "Something went wrong. Please try again."
SuccessToastText == "You're on the waitlist!"

\* ------------------------------------------------------------ encoding
None == <<>>
Some(x) == <<x>>

\* a ?? d
OrElse(a, d) == IF a = None THEN d ELSE a[1]

ServerCounts == 0 .. MaxCount

\* the clock advances by one millisecond or by one cache duration less a
\* millisecond, so that an entry can be aged to just under, exactly and
\* just over the cache duration
TickSteps == {1, CACHE_DURATION - 1}

VARIABLES
  now,            \* Date.now()
  ticks,          \* how often the clock advanced
  cache,          \* localStorage["waitlist_count"]
  cachedData,     \* what the latest run of queryFn read from the cache
  flag,           \* localStorage["waitlist_success"]: None or Some(string)
  queryData,      \* query.data: None or Some([count |-> optional number])
  queryError,     \* the query is in its error state
  dataUpdatedAt,  \* when query.data was last set
  fetchInFlight,  \* a GET /api/waitlist/count is awaited by queryFn
  joinInFlight,   \* number of POST /api/waitlist/join awaited by mutations
  success,        \* useWaitlistCount's success state
  localSuccess,   \* WaitlistForm's localSuccess state
  countCalls,     \* GET /api/waitlist/count requests issued
  joinCalls,      \* POST /api/waitlist/join requests issued
  joinsOk,        \* join responses with a 2xx status received
  confetti,       \* confettiBurst calls
  successToasts,  \* toast.success calls
  errorToasts,    \* toast.error calls
  lastToast,      \* text of the last toast, None before the first
  lastFailure,    \* the failure the last onError was called for, or None
  submitEntry,    \* the entry the last onSuccess persisted, or None
  otherFetch,     \* another page's queryFn awaits GET /api/waitlist/count
  lastOp          \* the step taken last

vars == <<now, ticks, cache, cachedData, lastFailure, flag, queryData,
          queryError, dataUpdatedAt, fetchInFlight, joinInFlight, success,
          localSuccess, countCalls, joinCalls, joinsOk, confetti,
          successToasts, errorToasts, lastToast, submitEntry, otherFetch,
          lastOp>>

\* --------------------------------------------------------- the cache
\* JSON.stringify({count, timestamp}) as stored under LOCAL_STORAGE_KEY
Entry(count, timestamp) ==
  [kind |-> "object", count |-> count, timestamp |-> timestamp]

Absent == [kind |-> "absent", count |-> None, timestamp |-> None]
EmptyString == [kind |-> "empty", count |-> None, timestamp |-> None]
Garbage == [kind |-> "garbage", count |-> None, timestamp |-> None]
JsonNull == [kind |-> "jsonnull", count |-> None, timestamp |-> None]

\* if (cachedData): null and "" are falsy
Truthy(c) == c.kind \notin {"absent", "empty"}

\* JSON.parse(cachedData) throws, or destructuring its result (null) throws
ParseThrows(c) == c.kind \in {"garbage", "jsonnull"}

\* mutant of IsExpired: the age in milliseconds against the duration in seconds
IsExpiredInSeconds(c, t) ==
  IF c.timestamp = None THEN FALSE
  ELSE t - c.timestamp[1] > CACHE_DURATION \div 1000

\* Date.now() - timestamp > CACHE_DURATION; with timestamp undefined the
\* difference is NaN and every comparison with NaN is false
IsExpired(c, t) ==
  IF c.timestamp = None THEN FALSE ELSE t - c.timestamp[1] > CACHE_DURATION

\* queryFn returns { count } from the cache without fetching
ServedFromCache(c, t) == Truthy(c) /\ ~ParseThrows(c) /\ ~IsExpired(c, t)

\* a well-formed entry: an object with a numeric count and timestamp
WellFormed(c) == c.kind = "object" /\ c.count # None /\ c.timestamp # None

\* a stored value that is present and is not a well-formed entry
Malformed(c) == c.kind # "absent" /\ ~WellFormed(c)

\* query.data?.count ?? 0
DisplayedOf(d) == IF d = None THEN 0 ELSE OrElse(d[1].count, 0)
Displayed == DisplayedOf(queryData)

\* what localStorage may hold under the key when the page is first loaded
InitCaches ==
  {Absent, EmptyString, Garbage, JsonNull}
    \cup {Entry(c, t) : c \in {None} \cup {Some(n) : n \in ServerCounts},
                        t \in {None, Some(0)}}

\* ------------------------------------------------------------- Init
\* the first mount: storage as found, queryFn already started
Init ==
  /\ now = 0
  /\ ticks = 0
  /\ cache \in InitCaches
  /\ cachedData = cache
  /\ flag = None
  /\ queryData = IF ServedFromCache(cache, now)
                 THEN Some([count |-> cache.count]) ELSE None
  /\ queryError = FALSE
  /\ dataUpdatedAt = 0
  /\ fetchInFlight = ~ServedFromCache(cache, now)
  /\ countCalls = IF ServedFromCache(cache, now) THEN 0 ELSE 1
  /\ joinInFlight = 0
  /\ success = FALSE
  /\ localSuccess = FALSE
  /\ joinCalls = 0
  /\ joinsOk = 0
  /\ confetti = 0
  /\ successToasts = 0
  /\ errorToasts = 0
  /\ lastToast = None
  /\ lastFailure = None
  /\ submitEntry = None
  /\ otherFetch = FALSE
  /\ lastOp = "mount"

\* ----------------------------------------------------------- actions
Tick ==
  /\ ticks < MaxTicks
  /\ \E d \in TickSteps : now' = now + d
  /\ ticks' = ticks + 1
  /\ lastOp' = "tick"
  /\ UNCHANGED <<cache, cachedData, lastFailure, flag, queryData,
                 queryError, dataUpdatedAt, fetchInFlight, joinInFlight,
                 success, localSuccess, countCalls, joinCalls, joinsOk,
                 confetti, successToasts, errorToasts, lastToast,
                 submitEntry, otherFetch>>

\* queryFn up to its await: serve the cache or issue the request
QueryFn(prior) ==
  /\ cachedData' = cache
  /\ IF ServedFromCache(cache, now)
     THEN /\ queryData' = Some([count |-> cache.count])
          /\ dataUpdatedAt' = now
          /\ fetchInFlight' = FALSE
          /\ countCalls' = countCalls
     ELSE /\ countCalls < MaxFetches
          /\ queryData' = prior
          /\ dataUpdatedAt' = IF prior = None THEN 0 ELSE dataUpdatedAt
          /\ fetchInFlight' = TRUE
          /\ countCalls' = countCalls + 1

\* the query runs again: it has no data, is in error, or its data is stale
GetCount ==
  /\ ~fetchInFlight
  /\ \/ queryData = None
     \/ queryError
     \/ now - dataUpdatedAt >= CACHE_DURATION
  /\ QueryFn(queryData)
  /\ queryError' = (queryError /\ ~ServedFromCache(cache, now))
  /\ lastOp' = "getCount"
  /\ UNCHANGED <<now, ticks, cache, flag, joinInFlight, success,
                 localSuccess, joinCalls, joinsOk, confetti, successToasts,
                 errorToasts, lastToast, lastFailure,
                 submitEntry, otherFetch>>

\* mutant of FetchSuccess: the entry is written only when the count changed
FetchSuccessWriteIfChanged(c) ==
  /\ fetchInFlight
  /\ cache' = IF cache.count = Some(c) THEN cache
              ELSE Entry(Some(c), Some(now))
  /\ queryData' = Some([count |-> Some(c)])
  /\ queryError' = FALSE
  /\ dataUpdatedAt' = now
  /\ fetchInFlight' = FALSE
  /\ lastOp' = "fetchOk"
  /\ UNCHANGED <<now, ticks, cachedData, flag, joinInFlight, success,
                 localSuccess, countCalls, joinCalls, joinsOk, confetti,
                 successToasts, errorToasts, lastToast, lastFailure,
                 submitEntry, otherFetch>>

\* mutant of FetchSuccess: the larger of the persisted and the fetched count
\* is written, so that an increment made meanwhile is not lost
FetchSuccessMerges(c) ==
  /\ fetchInFlight
  /\ cache' = Entry(Some(IF OrElse(cache.count, 0) > c
                         THEN OrElse(cache.count, 0) ELSE c), Some(now))
  /\ queryData' = Some([count |-> Some(c)])
  /\ queryError' = FALSE
  /\ dataUpdatedAt' = now
  /\ fetchInFlight' = FALSE
  /\ lastOp' = "fetchOk"
  /\ UNCHANGED <<now, ticks, cachedData, flag, joinInFlight, success,
                 localSuccess, countCalls, joinCalls, joinsOk, confetti,
                 successToasts, errorToasts, lastToast, lastFailure,
                 submitEntry, otherFetch>>

\* getWaitlistCount resolves with { count: c }
FetchSuccess(c) ==
  /\ fetchInFlight
  /\ cache' = Entry(Some(c), Some(now))
  /\ queryData' = Some([count |-> Some(c)])
  /\ queryError' = FALSE
  /\ dataUpdatedAt' = now
  /\ fetchInFlight' = FALSE
  /\ lastOp' = "fetchOk"
  /\ UNCHANGED <<now, ticks, cachedData, flag, joinInFlight, success,
                 localSuccess, countCalls, joinCalls, joinsOk, confetti,
                 successToasts, errorToasts, lastToast, lastFailure,
                 submitEntry, otherFetch>>

\* mutant of FetchFail: a failed fetch removes the entry it could not renew
FetchFailEvicts ==
  /\ fetchInFlight
  /\ cache' = Absent
  /\ queryError' = TRUE
  /\ fetchInFlight' = FALSE
  /\ lastOp' = "fetchFail"
  /\ UNCHANGED <<now, ticks, cachedData, flag, queryData,
                 dataUpdatedAt, joinInFlight, success, localSuccess,
                 countCalls, joinCalls, joinsOk, confetti, successToasts,
                 errorToasts, lastToast, lastFailure,
                 submitEntry, otherFetch>>

\* getWaitlistCount rejects: network failure or !res.ok
FetchFail ==
  /\ fetchInFlight
  /\ queryError' = TRUE
  /\ fetchInFlight' = FALSE
  /\ lastOp' = "fetchFail"
  /\ UNCHANGED <<now, ticks, cache, cachedData, flag, queryData,
                 dataUpdatedAt, joinInFlight, success, localSuccess,
                 countCalls, joinCalls, joinsOk, confetti, successToasts,
                 errorToasts, lastToast, lastFailure,
                 submitEntry, otherFetch>>

\* ------------------------------------------------------ the join call
\* the message of the TypeError a failed fetch rejects with is the browser's
NetworkErrorMessages == {"Failed to fetch", "Load failed"}

\* the message of the TypeError raised by reading a property of null
NullReadMessage == "Cannot read properties of null (reading 'error')"

\* bodies of a non-2xx response: "none" is an absent or unparsable body
\* (response.json() rejects), "null" parses to null, "object" parses to an
\* object whose error property is missing or a string
ErrorBodies ==
  {[kind |-> "none", error |-> None], [kind |-> "null", error |-> None]}
    \cup {[kind |-> "object", error |-> e] :
            e \in {None, Some(""), Some("already joined")}}

\* the ways POST /api/waitlist/join fails
JoinFailures ==
  {[kind |-> "network", message |-> m,
    body |-> [kind |-> "none", error |-> None]] : m \in NetworkErrorMessages}
    \cup {[kind |-> "http", message |-> "", body |-> b] : b \in ErrorBodies}

\* mutant of JoinErrorMessage: the server's reason is dropped
JoinErrorMessageGeneric(r) ==
  IF r.kind = "network" THEN r.message
  ELSE IF r.body.kind = "null" THEN NullReadMessage
  ELSE GenericJoinError

\* the message of the error joinWaitlist rejects with
JoinErrorMessage(r) ==
  IF r.kind = "network" THEN r.message
  ELSE IF r.body.kind = "null" THEN NullReadMessage
  ELSE IF r.body.error = None \/ r.body.error = Some("") THEN GenericJoinError
  ELSE r.body.error[1]

\* mutant of Submit: success is set when the request is sent, not when it
\* has succeeded
SubmitSetsSuccess ==
  /\ ~localSuccess
  /\ joinCalls < MaxSubmits
  /\ joinCalls' = joinCalls + 1
  /\ joinInFlight' = joinInFlight + 1
  /\ success' = TRUE
  /\ flag' = Some("true")
  /\ localSuccess' = TRUE
  /\ lastOp' = "submit"
  /\ UNCHANGED <<now, ticks, cache, cachedData, queryData, queryError,
                 dataUpdatedAt, fetchInFlight, countCalls, joinsOk, confetti,
                 successToasts, errorToasts, lastToast, lastFailure,
                 submitEntry, otherFetch>>

\* handleJoinWaitlist: the form is rendered and holds a valid email
Submit ==
  /\ ~localSuccess
  /\ joinCalls < MaxSubmits
  /\ joinCalls' = joinCalls + 1
  /\ joinInFlight' = joinInFlight + 1
  /\ lastOp' = "submit"
  /\ UNCHANGED <<now, ticks, cache, cachedData, flag, queryData,
                 queryError, dataUpdatedAt, fetchInFlight, success,
                 localSuccess, countCalls, joinsOk, confetti, successToasts,
                 errorToasts, lastToast, lastFailure,
                 submitEntry, otherFetch>>

\* mutant of NewCount: (query.data?.count ?? 1) + 1
NewCountDefaultOne ==
  OrElse(IF queryData = None THEN None ELSE queryData[1].count, 1) + 1

\* mutant of NewCount: the persisted count is incremented, not query.data
NewCountFromCache == OrElse(cache.count, 0) + 1

\* (query.data?.count ?? 0) + 1
NewCount == Displayed + 1

\* mutant of SuccessEffect: the flag is not written to localStorage
SuccessEffectNoPersist ==
  /\ flag' = flag
  /\ localSuccess' = TRUE

\* the effect of WaitlistForm after success became true
SuccessEffect ==
  /\ flag' = Some("true")
  /\ localSuccess' = TRUE

\* mutant of JoinSuccess: the new count is published to the query only
JoinSuccessNoPersist ==
  /\ joinInFlight > 0
  /\ joinInFlight' = joinInFlight - 1
  /\ joinsOk' = joinsOk + 1
  /\ success' = TRUE
  /\ queryData' = Some([count |-> Some(NewCount)])
  /\ queryError' = FALSE
  /\ dataUpdatedAt' = now
  /\ confetti' = confetti + 1
  /\ successToasts' = successToasts + 1
  /\ lastToast' = Some(SuccessToastText)
  /\ flag' = Some("true")
  /\ localSuccess' = TRUE
  /\ lastOp' = "joinOk"
  /\ UNCHANGED <<now, ticks, cache, cachedData, fetchInFlight, countCalls,
                 joinCalls, errorToasts, lastFailure, submitEntry,
                 otherFetch>>

\* mutant of JoinSuccess: onSuccess also refetches the authoritative count
JoinSuccessRefetches ==
  /\ joinInFlight > 0
  /\ joinInFlight' = joinInFlight - 1
  /\ joinsOk' = joinsOk + 1
  /\ success' = TRUE
  /\ queryData' = Some([count |-> Some(NewCount)])
  /\ queryError' = FALSE
  /\ dataUpdatedAt' = now
  /\ cache' = Entry(Some(NewCount), Some(now))
  /\ submitEntry' = Some(cache')
  /\ confetti' = confetti + 1
  /\ successToasts' = successToasts + 1
  /\ lastToast' = Some(SuccessToastText)
  /\ flag' = Some("true")
  /\ localSuccess' = TRUE
  /\ fetchInFlight' = TRUE
  /\ countCalls' = IF fetchInFlight THEN countCalls ELSE countCalls + 1
  /\ lastOp' = "joinOk"
  /\ UNCHANGED <<now, ticks, cachedData, joinCalls, errorToasts,
                 lastFailure, otherFetch>>

\* joinWaitlist resolves: onSuccess, then the effect on waitlist.success
JoinSuccess ==
  /\ joinInFlight > 0
  /\ joinInFlight' = joinInFlight - 1
  /\ joinsOk' = joinsOk + 1
  /\ success' = TRUE
  /\ queryData' = Some([count |-> Some(NewCount)])
  /\ queryError' = FALSE
  /\ dataUpdatedAt' = now
  /\ cache' = Entry(Some(NewCount), Some(now))
  /\ submitEntry' = Some(cache')
  /\ confetti' = confetti + 1
  /\ successToasts' = successToasts + 1
  /\ lastToast' = Some(SuccessToastText)
  /\ IF success THEN UNCHANGED <<flag, localSuccess>> ELSE SuccessEffect
  /\ lastOp' = "joinOk"
  /\ UNCHANGED <<now, ticks, cachedData, fetchInFlight, countCalls,
                 joinCalls, errorToasts, lastFailure,
                 otherFetch>>

\* mutant of JoinFail: onError takes back an increment that was never made
JoinFailRollsBack(r) ==
  /\ joinInFlight > 0
  /\ joinInFlight' = joinInFlight - 1
  /\ errorToasts' = errorToasts + 1
  /\ lastToast' = Some(JoinErrorMessage(r))
  /\ lastFailure' = Some(r)
  /\ queryData' = Some([count |-> Some(Displayed - 1)])
  /\ lastOp' = "joinFail"
  /\ UNCHANGED <<now, ticks, cache, cachedData, flag, queryError,
                 dataUpdatedAt, fetchInFlight, success, localSuccess,
                 countCalls, joinCalls, joinsOk, confetti, successToasts,
                 submitEntry, otherFetch>>

\* what joinWaitlist rejects with: always an Error object
JoinError(r) == [isError |-> TRUE, message |-> JoinErrorMessage(r)]

\* error instanceof Error ? error.message : "Something went wrong. ..."
ToastErrorText(e) == IF e.isError THEN e.message ELSE FallbackToastError

\* joinWaitlist rejects: onError
JoinFail(r) ==
  /\ joinInFlight > 0
  /\ joinInFlight' = joinInFlight - 1
  /\ errorToasts' = errorToasts + 1
  /\ lastToast' = Some(ToastErrorText(JoinError(r)))
  /\ lastFailure' = Some(r)
  /\ lastOp' = "joinFail"
  /\ UNCHANGED <<now, ticks, cache, cachedData, flag, queryData, queryError,
                 dataUpdatedAt, fetchInFlight, success, localSuccess,
                 countCalls, joinCalls, joinsOk, confetti, successToasts,
                 submitEntry, otherFetch>>

\* the effect of WaitlistForm on mount, success being false
RestoreEffect == localSuccess' = (flag = Some("true"))

\* mutant of Reload: restoring the submitted state celebrates again
ReloadCelebrates ==
  /\ success' = FALSE
  /\ joinInFlight' = 0
  /\ localSuccess' = (flag = Some("true"))
  /\ confetti' = IF flag = Some("true") THEN confetti + 1 ELSE confetti
  /\ cachedData' = cache
  /\ queryData' = IF ServedFromCache(cache, now)
                  THEN Some([count |-> cache.count]) ELSE None
  /\ dataUpdatedAt' = IF ServedFromCache(cache, now) THEN now ELSE 0
  /\ fetchInFlight' = ~ServedFromCache(cache, now)
  /\ ServedFromCache(cache, now) \/ countCalls < MaxFetches
  /\ countCalls' = IF ServedFromCache(cache, now)
                   THEN countCalls ELSE countCalls + 1
  /\ queryError' = FALSE
  /\ lastOp' = "mount"
  /\ UNCHANGED <<now, ticks, cache, flag, joinCalls, joinsOk,
                 successToasts, errorToasts, lastToast, lastFailure,
                 submitEntry, otherFetch>>

\* a full reload: component state starts over, pending responses are
\* dropped, storage stays, and the query runs from scratch
Reload ==
  /\ success' = FALSE
  /\ joinInFlight' = 0
  /\ RestoreEffect
  /\ QueryFn(None)
  /\ queryError' = FALSE
  /\ lastOp' = "mount"
  /\ UNCHANGED <<now, ticks, cache, flag, joinCalls, joinsOk, confetti,
                 successToasts, errorToasts, lastToast, lastFailure,
                 submitEntry, otherFetch>>

\* ------------------------------------------------ a second open page
\* queryFn of another page on the same localStorage, up to its await; a
\* run that is served from the cache changes nothing here
OtherQueryFn ==
  /\ ~otherFetch
  /\ ~ServedFromCache(cache, now)
  /\ countCalls < MaxFetches
  /\ countCalls' = countCalls + 1
  /\ otherFetch' = TRUE
  /\ lastOp' = "otherGetCount"
  /\ UNCHANGED <<now, ticks, cache, cachedData, flag, queryData,
                 queryError, dataUpdatedAt, fetchInFlight, joinInFlight,
                 success, localSuccess, joinCalls, joinsOk, confetti,
                 successToasts, errorToasts, lastToast, lastFailure,
                 submitEntry>>

\* the other page's getWaitlistCount resolves with { count: c }
OtherFetchSuccess(c) ==
  /\ otherFetch
  /\ otherFetch' = FALSE
  /\ cache' = Entry(Some(c), Some(now))
  /\ lastOp' = "otherFetchOk"
  /\ UNCHANGED <<now, ticks, cachedData, flag, queryData, queryError,
                 dataUpdatedAt, fetchInFlight, joinInFlight, success,
                 localSuccess, countCalls, joinCalls, joinsOk, confetti,
                 successToasts, errorToasts, lastToast, lastFailure,
                 submitEntry>>

\* the other page's getWaitlistCount rejects
OtherFetchFail ==
  /\ otherFetch
  /\ otherFetch' = FALSE
  /\ lastOp' = "otherFetchFail"
  /\ UNCHANGED <<now, ticks, cache, cachedData, flag, queryData,
                 queryError, dataUpdatedAt, fetchInFlight, joinInFlight,
                 success, localSuccess, countCalls, joinCalls, joinsOk,
                 confetti, successToasts, errorToasts, lastToast,
                 lastFailure, submitEntry>>

Next ==
  \/ Tick
  \/ GetCount
  \/ \E c \in ServerCounts : FetchSuccess(c)
  \/ FetchFail
  \/ Submit
  \/ JoinSuccess
  \/ \E r \in JoinFailures : JoinFail(r)
  \/ Reload

Spec == Init /\ [][Next]_vars

\* the page together with a second page that shares its localStorage; a
\* failed join writes nothing and is left out here, a pending join then
\* stays pending
NextTabs ==
  \/ Tick
  \/ GetCount
  \/ \E c \in ServerCounts : FetchSuccess(c)
  \/ FetchFail
  \/ Submit
  \/ JoinSuccess
  \/ Reload
  \/ OtherQueryFn
  \/ \E c \in ServerCounts : OtherFetchSuccess(c)
  \/ OtherFetchFail

SpecTabs == Init /\ [][NextTabs]_vars

\* ------------------------------------------------------------ claims
\* a step that ran queryFn: on mount or on a later run of the query
RanQueryFn == lastOp' \in {"mount", "getCount"}

Age(c, t) == t - c.timestamp[1]

\* C1: a run of queryFn that finds a well-formed entry younger than
\* CACHE_DURATION returns the cached count, issues no GET
\* /api/waitlist/count and leaves the persisted entry unchanged.
C1_FreshEntryServed ==
  [][(RanQueryFn /\ WellFormed(cache) /\ Age(cache, now) < CACHE_DURATION)
       => /\ queryData' = Some([count |-> cache.count])
          /\ countCalls' = countCalls
          /\ ~fetchInFlight'
          /\ cache' = cache]_vars

\* C1 witness: queryFn has served an entry one millisecond short of expiry
C1_Witness ==
  /\ lastOp \in {"mount", "getCount"}
  /\ WellFormed(cachedData)
  /\ Age(cachedData, now) = CACHE_DURATION - 1
  /\ cache = cachedData
  /\ queryData = Some([count |-> cachedData.count])
  /\ ~fetchInFlight

\* a successful fetch persists the returned count with the current time and
\* returns it
FetchPersists ==
  lastOp' = "fetchOk"
    => /\ cache'.kind = "object"
       /\ cache'.count # None /\ cache'.count[1] \in ServerCounts
       /\ cache'.timestamp = Some(now)
       /\ queryData' = Some([count |-> cache'.count])
       /\ countCalls' = countCalls

C3_Original ==
  [][(RanQueryFn /\ Malformed(cache))
       => /\ countCalls' = countCalls + 1
          /\ fetchInFlight'
          /\ queryData' # Some([count |-> cache.count])]_vars

\* the count the page shows changes only when a fetch or a run of queryFn
\* delivers data or a submit succeeds
DisplayedChangesOnlyByQueryOrSubmit ==
  Displayed' # Displayed
    => lastOp' \in {"mount", "getCount", "fetchOk", "joinOk"}

\* C4: a successful submit raises the displayed count by exactly 1, whether
\* the query holds data, is fetching or has failed, and the displayed count
\* then changes only with the next query result or submit.
C4_SubmitAddsOne ==
  [][/\ lastOp' = "joinOk" => Displayed' = Displayed + 1
     /\ DisplayedChangesOnlyByQueryOrSubmit]_vars

\* C4 witness: a submit succeeded while the first fetch was still in
\* flight over an older persisted entry, and 1 is displayed
C4_Witness ==
  /\ lastOp = "joinOk"
  /\ fetchInFlight
  /\ WellFormed(cachedData) /\ cachedData.count # Some(0)
  /\ Displayed = 1

\* C5: once a submit has succeeded the persisted flag is "true", no step
\* resets it, and every reload restores the submitted state.
C5_FlagStays ==
  /\ [](joinsOk > 0 => flag = Some("true"))
  /\ [][/\ flag = Some("true") => flag' = Some("true")
        /\ (lastOp' = "mount" /\ flag = Some("true")) => localSuccess'
        /\ lastOp' = "joinOk" => (flag' = Some("true") /\ localSuccess')]_vars

\* C5 witness: the page was reloaded after a successful submit and shows
\* the submitted state though its own success state is false
C5_Witness ==
  /\ lastOp = "mount"
  /\ joinsOk > 0
  /\ ~success
  /\ localSuccess
  /\ flag = Some("true")

\* C6: a failed submit leaves the displayed count, the persisted entry and
\* the persisted flag as they were and fires no celebration.
C6_FailedSubmitFrame ==
  [][lastOp' = "joinFail"
       => /\ Displayed' = Displayed
          /\ queryData' = queryData
          /\ cache' = cache
          /\ flag' = flag
          /\ localSuccess' = localSuccess
          /\ confetti' = confetti
          /\ successToasts' = successToasts]_vars

\* C6 witness: a submit has failed while an entry is persisted and a count
\* is displayed
C6_Witness ==
  /\ lastOp = "joinFail"
  /\ lastFailure # None
  /\ WellFormed(cache)
  /\ Displayed > 0
  /\ confetti = 0

\* C7: a failed fetch puts the query in its error state, leaves the
\* persisted value exactly as it was and leaves the displayed count at its
\* previous value (0 without previous data).
C7_FailedFetchFrame ==
  [][lastOp' = "fetchFail"
       => /\ queryError'
          /\ cache' = cache
          /\ queryData' = queryData
          /\ Displayed' = Displayed]_vars

\* C7 witness: the fetch for an expired entry has failed and the expired
\* entry is still persisted
C7_Witness ==
  /\ lastOp = "fetchFail"
  /\ queryError
  /\ WellFormed(cache)
  /\ Age(cache, now) > CACHE_DURATION
  /\ cache = cachedData

\* the failure has a non-2xx response whose body is an object with a
\* non-empty error string
HasServerReason(r) ==
  r.kind = "http" /\ r.body.kind = "object"
    /\ r.body.error # None /\ r.body.error # Some("")

\* C8 as stated: a failed submit surfaces exactly one error notification;
\* its text is the server's error string when the body has one and in every
\* other case (no body, unparsable body, no error field, network failure)
\* one fixed generic message.
C8_Original ==
  [][lastOp' = "joinFail"
       => /\ errorToasts' = errorToasts + 1
          /\ lastToast' =
               Some(IF HasServerReason(lastFailure'[1])
                    THEN lastFailure'[1].body.error[1]
                    ELSE GenericJoinError)]_vars

\* C8 amended: a failed submit surfaces exactly one error notification; its
\* text is the server's error string when the non-2xx body is an object
\* with a non-empty error string, the fixed text "Failed to join waitlist"
\* when the non-2xx body is absent, unparsable or an object without a
\* non-empty error string, and the message of the error that was raised when
\* the request failed at network level or the body parsed to null.
C8_ErrorToastText ==
  [][lastOp' = "joinFail"
       => /\ errorToasts' = errorToasts + 1
          /\ successToasts' = successToasts
          /\ LET r == lastFailure'[1] IN
               lastToast' =
                 Some(CASE HasServerReason(r) -> r.body.error[1]
                        [] r.kind = "network" -> r.message
                        [] r.kind = "http" /\ r.body.kind = "null"
                             -> NullReadMessage
                        [] OTHER -> GenericJoinError)]_vars

\* C8 witness: a submit was refused with a reason and the toast shows it
C8_Witness ==
  /\ lastOp = "joinFail"
  /\ HasServerReason(lastFailure[1])
  /\ lastToast = Some("already joined")
  /\ errorToasts = 1

\* the state of the form as the page shows it
UiState ==
  IF localSuccess THEN "Submitted"
  ELSE IF joinInFlight > 0 THEN "Submitting" ELSE "NotSubmitted"

\* C9 as stated: the form moves NotSubmitted -> Submitting -> Submitted or
\* NotSubmitted only; Submitted is entered only by a successful join
\* response (or restored by a reload), and once Submitted the form stays
\* Submitted and no join request is sent or applied any more.
C9_Original ==
  [][/\ UiState' # UiState
          => <<UiState, UiState'>> \in
               {<<"NotSubmitted", "Submitting">>,
                <<"Submitting", "Submitted">>,
                <<"Submitting", "NotSubmitted">>}
     /\ (UiState # "Submitted" /\ UiState' = "Submitted")
          => lastOp' = "joinOk"
     /\ UiState = "Submitted"
          => /\ UiState' = "Submitted"
             /\ joinCalls' = joinCalls
             /\ joinsOk' = joinsOk]_vars

\* C10: confettiBurst and toast.success each run exactly once in a
\* successful submit and in no other step: not in a failed submit, a run of
\* the query, or a reload that restores the submitted state.
C10_CelebrateOncePerSuccess ==
  /\ [](confetti = joinsOk /\ successToasts = joinsOk)
  /\ [][IF lastOp' = "joinOk"
        THEN /\ confetti' = confetti + 1
             /\ successToasts' = successToasts + 1
             /\ lastToast' = Some(SuccessToastText)
        ELSE /\ confetti' = confetti
             /\ successToasts' = successToasts]_vars

\* C10 witness: after one successful submit the page was reloaded into the
\* submitted state, and the celebration has still run once
C10_Witness ==
  /\ lastOp = "mount"
  /\ localSuccess
  /\ joinsOk = 1
  /\ confetti = 1
  /\ successToasts = 1

\* onSuccess issues no count request and persists the in-memory count + 1
\* with the current time
SubmitPersistsIncrement ==
  lastOp' = "joinOk"
    => /\ countCalls' = countCalls
       /\ fetchInFlight' = fetchInFlight
       /\ cache' = Entry(Some(Displayed + 1), Some(now))
       /\ queryData' = Some([count |-> cache'.count])

\* the last successful submit lies less than CACHE_DURATION back
WithinTtlOfSubmit ==
  submitEntry # None /\ Age(submitEntry[1], now) < CACHE_DURATION

\* C11 as stated: a successful submit issues no GET /api/waitlist/count and
\* persists {count: in-memory count + 1, timestamp: now}, and every run of
\* queryFn less than CACHE_DURATION after it returns that count without a
\* request.
C11_Original ==
  [][/\ SubmitPersistsIncrement
     /\ (RanQueryFn /\ WithinTtlOfSubmit)
          => /\ queryData' = Some([count |-> submitEntry[1].count])
             /\ countCalls' = countCalls]_vars

\* C11 amended: a successful submit issues no GET /api/waitlist/count and
\* persists {count: in-memory count + 1, timestamp: now}; every run of
\* queryFn less than CACHE_DURATION after it issues no request, and returns
\* that count as long as the entry the submit wrote is still the persisted
\* one (a fetch that completes after the submit overwrites it).
C11_OptimisticUpdate ==
  [][/\ SubmitPersistsIncrement
     /\ (RanQueryFn /\ WithinTtlOfSubmit)
          => /\ countCalls' = countCalls
             /\ ~fetchInFlight'
             /\ cache = submitEntry[1]
                  => queryData' = Some([count |-> submitEntry[1].count])]_vars

\* C11 witness: queryFn has served the entry of a successful submit one
\* millisecond before it expires
C11_Witness ==
  /\ lastOp \in {"mount", "getCount"}
  /\ submitEntry # None
  /\ cache = submitEntry[1]
  /\ Age(cache, now) = CACHE_DURATION - 1
  /\ queryData = Some([count |-> cache.count])
  /\ ~fetchInFlight

\* the steps that write the persisted entry: a count fetch of either page
\* resolving, or a join resolving
Completions == {"fetchOk", "otherFetchOk", "joinOk"}

\* C12: with a count fetch and a submit, or the count fetches of two pages,
\* in flight together, each completion writes the whole entry (its own
\* count with the time of the write) and nothing else writes, so the
\* persisted entry is always exactly what the last completion wrote.
C12_LastWriterWins ==
  [][/\ lastOp' = "fetchOk"
          => /\ queryData'[1].count[1] \in ServerCounts
             /\ cache' = Entry(queryData'[1].count, Some(now))
     /\ lastOp' = "otherFetchOk"
          => \E c \in ServerCounts : cache' = Entry(Some(c), Some(now))
     /\ lastOp' = "joinOk"
          => cache' = Entry(Some(Displayed + 1), Some(now))
     /\ lastOp' \notin Completions => cache' = cache]_vars

\* C12 witness: while this page's count fetch is in flight, the other
\* page's fetch completes after a submit has written its entry at an
\* earlier time, and the entry is the one the other page's fetch wrote
C12_Witness ==
  /\ lastOp = "otherFetchOk"
  /\ fetchInFlight
  /\ submitEntry # None
  /\ submitEntry[1].timestamp # Some(now)
  /\ submitEntry[1].count # cache.count
  /\ cache.kind = "object"
  /\ cache.timestamp = Some(now)

\* the count is a number and not negative
IsCount(c) == c # None /\ c[1] \in Nat

\* C13 as stated: every entry the program writes has an integer count >= 0
\* and a timestamp <= now, and the count getCount returns and the displayed
\* count are non-negative integers in every state.
C13_Original ==
  /\ [](/\ WellFormed(cache)
             => (IsCount(cache.count) /\ cache.timestamp[1] <= now)
        /\ Displayed \in Nat)
  /\ [][/\ cache' # cache
             => /\ WellFormed(cache')
                /\ IsCount(cache'.count)
                /\ cache'.timestamp[1] <= now'
        /\ (lastOp' \in {"mount", "getCount", "fetchOk"} /\ ~fetchInFlight')
             => IsCount(queryData'[1].count)]_vars

C15_Original ==
  /\ [](joinInFlight <= 1 /\ joinsOk <= 1 /\ confetti <= 1)
  /\ [][joinInFlight > 0 => joinCalls' = joinCalls]_vars

\* no count fetch and no join is in flight
Idle == ~fetchInFlight /\ joinInFlight = 0

\* C16: whenever nothing is in flight and the query holds data, the count
\* the query holds is the count of the persisted entry, and the displayed
\* count equals it (0 standing for a count that is missing in both).
C16_DisplayedIsPersisted ==
  (Idle /\ queryData # None)
    => /\ cache.kind = "object"
       /\ queryData[1].count = cache.count
       /\ cache.count # None => Displayed = cache.count[1]
       /\ cache.count = None => Displayed = 0

\* C16 witness: after a fetch, a failed submit and a successful submit
\* nothing is in flight and the page shows the persisted count 2
C16_Witness ==
  /\ Idle
  /\ queryData # None
  /\ joinsOk = 1
  /\ errorToasts = 1
  /\ countCalls > 0
  /\ cache.count = Some(2)
  /\ Displayed = 2

\* C17: the persisted flag is set only by a step in which a join answered
\* 2xx: whenever it is set a join has succeeded before, and no run of the
\* query, failed submit or reload changes it.
C17_FlagOnlyBySuccess ==
  /\ [](flag # None => (flag = Some("true") /\ joinsOk > 0))
  /\ [][flag' # flag => (lastOp' = "joinOk" /\ joinsOk' = joinsOk + 1)]_vars

\* C17 witness: after a failed submit and a reload that left the flag
\* unset, the first successful join has just set it
C17_Witness ==
  /\ lastOp = "joinOk"
  /\ flag = Some("true")
  /\ joinsOk = 1
  /\ errorToasts = 1
  /\ countCalls = 2
  /\ ticks = 0

=============================================================================
